---- MODULE Spec2Model ----
(***************************************************************************)
(* Model of crates/rendering/src/cursor_svg.rs: the cursor-shape           *)
(* classifier (CommonCursorType::detect_from_image and its five pattern    *)
(* tests), the bundled-asset lookup (load_cursor_svg, svg_filename) and    *)
(* the file entry point (analyze_cursor_image).                            *)
(*                                                                         *)
(* An image buffer is the byte sequence the code receives (1-based here,   *)
(* 0-based in the code: byte offset i of the code is element i + 1).       *)
(* width and height are u32 values; the model draws them below 2^31.       *)
(* Rust's integer overflow is build dependent: with overflow checks (the   *)
(* default of the dev and test profiles) it panics, without them (the      *)
(* default of the release profile) it wraps modulo 2^32.  The variable     *)
(* overflow_checks is that build setting; both builds are modelled.        *)
(***************************************************************************)
EXTENDS Integers, Sequences, FiniteSets, TLC

VARIABLES
    overflow_checks,  \* the build's overflow-checks setting
    image_data,       \* the caller's RGBA byte buffer
    width,            \* the declared width
    height,           \* the declared height
    file,             \* the file at the path given to analyze_cursor_image
    op,               \* the last operation the caller invoked
    arg,              \* the cursor type given to the last load_cursor_svg
    result,           \* what the last operation returned (or that it panicked)
    calls_left        \* invocations the caller still makes

vars == <<overflow_checks, image_data, width, height, file, op, arg, result,
          calls_left>>

----------------------------------------------------------------------------
(* Bounds of the model *)

\* A height so large that a width of 16 makes width*height*4 reach 2^32.
HugeHeight == 67108864

\* The number of invocations the caller of SpecApi makes.
MaxCalls == 2

----------------------------------------------------------------------------
(* Option<T> values and a panic, as pairs so that they compare *)

None == <<"None", "-">>

Some(v) == <<"Some", v>>

Panicked == <<"Panic", "-">>

CursorTypes == {"Arrow", "IBeam", "Crosshair", "PointingHand", "ResizeNWSE", "ResizeEW"}

----------------------------------------------------------------------------
(* u32 and i32 arithmetic.  TLC's integers are 32-bit signed, so a u32     *)
(* result is held in two 16-bit limbs with the overflow it caused.         *)

I32Max == 2147483647

Limb == 2^16

Two30 == 2^30

U32(v) == [ovf |-> FALSE, hi |-> v \div Limb, lo |-> v % Limb]

\* x + y in u32: the sum modulo 2^32, and whether it passed 2^32.
U32Add(x, y) ==
    LET lo == x.lo + y.lo
        hi == x.hi + y.hi + (lo \div Limb)
    IN  [ovf |-> x.ovf \/ y.ovf \/ hi >= Limb, hi |-> hi % Limb, lo |-> lo % Limb]

\* x * k in u32 (k a natural number), by doubling: every partial sum is at
\* most the product, so an overflow of any of them is an overflow of x * k.
RECURSIVE U32Mul(_, _)
U32Mul(x, k) ==
    IF k = 0 THEN U32(0)
    ELSE LET half == U32Mul(x, k \div 2)
             dbl  == U32Add(half, half)
         IN  IF k % 2 = 1 THEN U32Add(dbl, [x EXCEPT !.ovf = FALSE]) ELSE dbl

\* len < (v as usize), for a buffer length len below 2^31.
LenBelow(len, v) ==
    IF v.hi >= Limb \div 2 THEN TRUE ELSE len < v.hi * Limb + v.lo

\* v as i32: the same 32 bits read as a signed number.
AsI32(v) == IF v <= I32Max THEN v ELSE ((v - I32Max) - I32Max) - 2

\* a - b overflows i32.
I32SubOverflows(a, b) ==
    \/ b < 0 /\ a > I32Max + b
    \/ b > 0 /\ a < (-I32Max - 1) + b

Abs(v) == IF v < 0 THEN -v ELSE v

Min(a, b) == IF a < b THEN a ELSE b

----------------------------------------------------------------------------
(* The scan every pattern test makes (lines 90-103 and its four copies):   *)
(*   for y in 0..height { for x in 0..width {                              *)
(*       let idx = ((y * width + x) * 4) as usize;                         *)
(*       if idx + 3 < image_data.len() { .. image_data[idx + 3] .. } } }   *)
(* A cell is the number n = y * width + x of a grid position, so           *)
(* x = n % width and y = n \div width.                                     *)

CellX(n, w) == n % w

CellY(n, w) == n \div w

\* The byte offset the code computes for cell n: (n * 4) in u32.  It is
\* reached only after the length guard, so with overflow checks n * 4 is
\* below 2^32 and without them it wraps: 4 * (n % 2^30) in both builds.
Idx(n) == 4 * (n % Two30)

\* The cells whose alpha byte the scan reads: those with Idx(n) + 3 < len,
\* that is n % 2^30 < len \div 4.  The grid has fewer than 2^31 cells, so
\* these are the cells below len \div 4 and the cells 2^30 + j that wrap
\* onto them.
ScannedCells(data, w, h) ==
    LET slots == Len(data) \div 4
        cells == w * h
    IN  (0 .. (Min(cells, slots) - 1))
          \cup {Two30 + j : j \in 0 .. (Min(cells - Two30, slots) - 1)}

\* The same set as the loops enumerate it, cell by cell.
ScannedCellsDirect(data, w, h) ==
    {n \in 0 .. (w * h - 1) : Idx(n) + 3 < Len(data)}

\* The scanned cells with alpha > 128.
OpaqueCells(data, w, h) ==
    {n \in ScannedCells(data, w, h) : data[Idx(n) + 3 + 1] > 128}

\* a as f32 / b as f32 > p/q for the thresholds 0.3, 0.6 and 0.5.  The
\* counts are far below 2^24, so the casts are exact, and a quotient that
\* differs from p/q differs by at least 1/(10*b), far more than the
\* rounding of the division and of the f32 literal: the comparison is that
\* of the fractions.
RatioAbove(a, b, p, q) == a * q > p * b

\* if image_data.len() < (width * height * 4) as usize { return false; }
\* "panic": the multiplication overflowed in a build that checks it;
\* "short": the guard returned false; "ok": the scan follows.
LengthGuard(data, w, h, checks) ==
    LET bytes == U32Mul(U32Mul(U32(w), h), 4)
    IN  IF bytes.ovf /\ checks THEN "panic"
        ELSE IF LenBelow(Len(data), bytes) THEN "short"
        ELSE "ok"

\* A pattern test's outcome from its guard and its final expression.
Outcome(guard, accepted) ==
    IF guard = "panic" THEN "panic"
    ELSE IF guard = "short" THEN "false"
    ELSE IF accepted THEN "true" ELSE "false"

----------------------------------------------------------------------------
(* The five pattern tests *)

\* Fault injection for C9: the top-left zone taken as a half, not a third.
matches_arrow_pattern_half(data, w, h, checks) ==
    LET guard == LengthGuard(data, w, h, checks)
        opaque == OpaqueCells(data, w, h)
        non_transparent_pixels == Cardinality(opaque)
        top_left_pixels ==
            Cardinality({n \in opaque :
                CellX(n, w) <= w \div 2 /\ CellY(n, w) <= h \div 2})
    IN  Outcome(guard,
            non_transparent_pixels > 0
            /\ RatioAbove(top_left_pixels, non_transparent_pixels, 3, 10))

matches_arrow_pattern(data, w, h, checks) ==
    LET guard == LengthGuard(data, w, h, checks)
        opaque == OpaqueCells(data, w, h)
        non_transparent_pixels == Cardinality(opaque)
        top_left_pixels ==
            Cardinality({n \in opaque :
                CellX(n, w) <= w \div 3 /\ CellY(n, w) <= h \div 3})
    IN  Outcome(guard,
            non_transparent_pixels > 0
            /\ RatioAbove(top_left_pixels, non_transparent_pixels, 3, 10))

matches_ibeam_pattern(data, w, h, checks) ==
    LET guard == LengthGuard(data, w, h, checks)
        center_x == w \div 2
        opaque == OpaqueCells(data, w, h)
        total_pixels == Cardinality(opaque)
        center_column_pixels ==
            Cardinality({n \in opaque : Abs(CellX(n, w) - center_x) <= 2})
    IN  Outcome(guard,
            total_pixels > 0
            /\ RatioAbove(center_column_pixels, total_pixels, 6, 10))

matches_crosshair_pattern(data, w, h, checks) ==
    LET guard == LengthGuard(data, w, h, checks)
        center_x == w \div 2
        center_y == h \div 2
        opaque == OpaqueCells(data, w, h)
        total_pixels == Cardinality(opaque)
        cross_pixels ==
            Cardinality({n \in opaque :
                \/ Abs(CellX(n, w) - center_x) <= 2
                \/ Abs(CellY(n, w) - center_y) <= 2})
    IN  Outcome(guard,
            total_pixels > 0 /\ RatioAbove(cross_pixels, total_pixels, 5, 10))

\* Fault injection for C10: bottom >= top where the code has bottom > top.
matches_hand_pattern_ge(data, w, h, checks) ==
    LET guard == LengthGuard(data, w, h, checks)
        mid_y == h \div 2
        opaque == OpaqueCells(data, w, h)
        top_half_pixels == Cardinality({n \in opaque : CellY(n, w) < mid_y})
        bottom_half_pixels == Cardinality({n \in opaque : ~(CellY(n, w) < mid_y)})
    IN  Outcome(guard,
            bottom_half_pixels >= top_half_pixels /\ bottom_half_pixels > 50)

matches_hand_pattern(data, w, h, checks) ==
    LET guard == LengthGuard(data, w, h, checks)
        mid_y == h \div 2
        opaque == OpaqueCells(data, w, h)
        top_half_pixels == Cardinality({n \in opaque : CellY(n, w) < mid_y})
        bottom_half_pixels == Cardinality({n \in opaque : ~(CellY(n, w) < mid_y)})
    IN  Outcome(guard,
            bottom_half_pixels > top_half_pixels /\ bottom_half_pixels > 50)

matches_resize_pattern(data, w, h, checks) ==
    LET guard == LengthGuard(data, w, h, checks)
        opaque == OpaqueCells(data, w, h)
        total_pixels == Cardinality(opaque)
        is_corner(x, y) ==
            \/ x < w \div 4 /\ y < h \div 4
            \/ x > (3 * w) \div 4 /\ y > (3 * h) \div 4
            \/ x < w \div 4 /\ y > (3 * h) \div 4
            \/ x > (3 * w) \div 4 /\ y < h \div 4
        is_edge(x, y) == x < 2 \/ x > w - 3 \/ y < 2 \/ y > h - 3
        corner_pixels ==
            Cardinality({n \in opaque : is_corner(CellX(n, w), CellY(n, w))})
        edge_pixels ==
            Cardinality({n \in opaque : is_edge(CellX(n, w), CellY(n, w))})
    IN  Outcome(guard,
            total_pixels > 20
            /\ (\/ RatioAbove(corner_pixels, total_pixels, 3, 10)
                \/ RatioAbove(edge_pixels, total_pixels, 6, 10)))

----------------------------------------------------------------------------
(* The size gates of detect_from_image *)

ArrowGate(w, h) == w <= 40 /\ h <= 40

IBeamGate(w, h) == w < h /\ w <= 20 /\ h >= 20

\* (width as i32 - height as i32).abs() <= 5 && width >= 20 && width <= 40:
\* the subtraction and the abs come first and may overflow.
CrosshairGate(w, h, checks) ==
    LET a == AsI32(w)
        b == AsI32(h)
    IN  IF I32SubOverflows(a, b)
        THEN (IF checks THEN "panic" ELSE "false")
        ELSE IF a - b = -I32Max - 1
        THEN (IF checks THEN "panic"
              ELSE IF w >= 20 /\ w <= 40 THEN "true" ELSE "false")
        ELSE IF Abs(a - b) <= 5 /\ w >= 20 /\ w <= 40 THEN "true" ELSE "false"

HandGate(w, h) == w >= 20 /\ h >= 20 /\ w <= 40 /\ h <= 40

ResizeGate(w, h) == w >= 16 /\ h >= 16 /\ w <= 40 /\ h <= 40

----------------------------------------------------------------------------
(* detect_from_image: the gated tests in their fixed order, each returning *)
(* at once when it accepts; a panic of a gate or of a test ends the call.  *)

\* One "if gate { if test { return Some(shape) } }" block followed by the
\* rest of the function.
Stage(gate, test, shape, rest) ==
    IF gate = "panic" THEN Panicked
    ELSE IF gate = "false" THEN rest
    ELSE IF test = "panic" THEN Panicked
    ELSE IF test = "true" THEN Some(shape)
    ELSE rest

Bool(b) == IF b THEN "true" ELSE "false"

\* Fault injection for C7: a resize shape wider than tall reported as
\* ResizeEW.
detect_from_image_ew(data, w, h, checks) ==
    Stage(Bool(ArrowGate(w, h)),
          matches_arrow_pattern(data, w, h, checks), "Arrow",
    Stage(Bool(IBeamGate(w, h)),
          matches_ibeam_pattern(data, w, h, checks), "IBeam",
    Stage(CrosshairGate(w, h, checks),
          matches_crosshair_pattern(data, w, h, checks), "Crosshair",
    Stage(Bool(HandGate(w, h)),
          matches_hand_pattern(data, w, h, checks), "PointingHand",
    Stage(Bool(ResizeGate(w, h)),
          matches_resize_pattern(data, w, h, checks),
          IF w > h THEN "ResizeEW" ELSE "ResizeNWSE",
    None)))))

detect_from_image(data, w, h, checks) ==
    Stage(Bool(ArrowGate(w, h)),
          matches_arrow_pattern(data, w, h, checks), "Arrow",
    Stage(Bool(IBeamGate(w, h)),
          matches_ibeam_pattern(data, w, h, checks), "IBeam",
    Stage(CrosshairGate(w, h, checks),
          matches_crosshair_pattern(data, w, h, checks), "Crosshair",
    Stage(Bool(HandGate(w, h)),
          matches_hand_pattern(data, w, h, checks), "PointingHand",
    Stage(Bool(ResizeGate(w, h)),
          matches_resize_pattern(data, w, h, checks), "ResizeNWSE",
    None)))))

----------------------------------------------------------------------------------------------------------------------------------------
(* The bundled assets *)

svg_filename(cursor_type) ==
    CASE cursor_type = "Arrow"        -> "arrow.svg"
      [] cursor_type = "IBeam"        -> "ibeam.svg"
      [] cursor_type = "Crosshair"    -> "crosshair.svg"
      [] cursor_type = "PointingHand" -> "pointing-hand.svg"
      [] cursor_type = "ResizeNWSE"   -> "resize-nwse.svg"
      [] cursor_type = "ResizeEW"     -> "resize-ew.svg"

\* include_bytes!(path): the bytes of the file at path, fixed when the
\* crate is built.  The content of a file is opaque here: it is known by
\* the file it comes from.
include_bytes(path) == <<"bytes of", path>>

\* Fault injection for C6: the ResizeEW arm embedding the ResizeNWSE file.
load_cursor_svg_copied(cursor_type) ==
    LET svg_content ==
          CASE cursor_type = "Arrow" ->
                 include_bytes("../../../apps/desktop/src/cursors/arrow.svg")
            [] cursor_type = "IBeam" ->
                 include_bytes("../../../apps/desktop/src/cursors/ibeam.svg")
            [] cursor_type = "Crosshair" ->
                 include_bytes("../../../apps/desktop/src/cursors/crosshair.svg")
            [] cursor_type = "PointingHand" ->
                 include_bytes("../../../apps/desktop/src/cursors/pointing-hand.svg")
            [] cursor_type = "ResizeNWSE" ->
                 include_bytes("../../../apps/desktop/src/cursors/resize-nwse.svg")
            [] cursor_type = "ResizeEW" ->
                 include_bytes("../../../apps/desktop/src/cursors/resize-nwse.svg")
    IN  Some(svg_content)

load_cursor_svg(cursor_type) ==
    LET svg_content ==
          CASE cursor_type = "Arrow" ->
                 include_bytes("../../../apps/desktop/src/cursors/arrow.svg")
            [] cursor_type = "IBeam" ->
                 include_bytes("../../../apps/desktop/src/cursors/ibeam.svg")
            [] cursor_type = "Crosshair" ->
                 include_bytes("../../../apps/desktop/src/cursors/crosshair.svg")
            [] cursor_type = "PointingHand" ->
                 include_bytes("../../../apps/desktop/src/cursors/pointing-hand.svg")
            [] cursor_type = "ResizeNWSE" ->
                 include_bytes("../../../apps/desktop/src/cursors/resize-nwse.svg")
            [] cursor_type = "ResizeEW" ->
                 include_bytes("../../../apps/desktop/src/cursors/resize-ew.svg")
    IN  Some(svg_content)

----------------------------------------------------------------------------
(* analyze_cursor_image.  A file is a record: kind says what its content   *)
(* is; an image file has its width, its height and its pixels, four bytes  *)
(* a pixel ("rgba8") or three ("rgb8").                                    *)

\* image::open(path): Ok(img) for a file that decodes, Err otherwise.
image_open(f) ==
    IF f.kind \in {"rgba8", "rgb8"} THEN <<"Ok", f>> ELSE <<"Err", f>>

\* img.to_rgba8().into_raw(): the pixels as RGBA bytes; a pixel without an
\* alpha channel is opaque.
to_rgba8(img) ==
    IF img.kind = "rgba8" THEN img.pixels
    ELSE [i \in 1 .. (img.width * img.height * 4) |->
            IF i % 4 = 0 THEN 255
            ELSE img.pixels[3 * ((i - 1) \div 4) + ((i - 1) % 4) + 1]]

\* img.dimensions()
dimensions(img) == <<img.width, img.height>>

\* Fault injection for C5: the height passed as width and the width as
\* height.
analyze_cursor_image_swapped(f, checks) ==
    LET opened == image_open(f)
        img == opened[2]
    IN  IF opened[1] = "Ok"
        THEN detect_from_image(to_rgba8(img), dimensions(img)[2],
                               dimensions(img)[1], checks)
        ELSE None

analyze_cursor_image(f, checks) ==
    LET opened == image_open(f)
        img == opened[2]
    IN  IF opened[1] = "Ok"
        THEN detect_from_image(to_rgba8(img), dimensions(img)[1],
                               dimensions(img)[2], checks)
        ELSE None

----------------
(* The inputs the model draws: buffers painted with a silhouette *)

Patterns ==
    {"blank", "full", "topleft", "column", "plus", "hbar", "dot", "border",
     "bottom", "corners", "framed_arrow", "lower_cross"}

\* Whether the silhouette p has the pixel (x, y) of a w x h grid.
InPattern(p, x, y, w, h) ==
    CASE p = "blank"   -> FALSE
      [] p = "full"    -> TRUE
      [] p = "topleft" -> x < w \div 3 /\ y < h \div 3
      [] p = "column"  -> x = w \div 2
      [] p = "plus"    -> Abs(x - w \div 2) <= 1 \/ Abs(y - h \div 2) <= 1
      [] p = "hbar"    -> Abs(y - h \div 2) <= 2
      [] p = "dot"     -> x = w \div 2 /\ y = h \div 2
      [] p = "border"  -> x = 0 \/ x = w - 1 \/ y = 0 \/ y = h - 1
      [] p = "bottom"  -> y >= h \div 2 + 2
      [] p = "corners" -> (x < 3 \/ x > w - 4) /\ (y < 3 \/ y > h - 4)
      [] p = "framed_arrow" ->
            \/ x = 0 \/ x = w - 1 \/ y = 0 \/ y = h - 1
            \/ x < w \div 3 /\ y < h \div 3
      [] p = "lower_cross" ->
            \/ Abs(x - w \div 2) <= 1 /\ y >= h \div 4
            \/ Abs(y - (3 * h) \div 4) <= 1

LenKinds == {"empty", "ten", "row", "short", "exact", "extra"}

LenOf(kind, w, h) ==
    CASE kind = "empty" -> 0
      [] kind = "ten"   -> 10
      [] kind = "row"   -> 4 * w
      [] kind = "short" -> IF w * h = 0 THEN 0 ELSE w * h * 4 - 1
      [] kind = "exact" -> w * h * 4
      [] kind = "extra" -> (w * h + 2) * 4

\* A buffer of len bytes whose pixels in p have alpha a; every other byte
\* is 0.  With no column to place a pixel in (w = 0) every pixel is painted.
Paint(w, h, len, p, a) ==
    [i \in 1 .. len |->
        IF i % 4 = 0 /\ p # "blank"
           /\ (w = 0 \/ InPattern(p, ((i \div 4) - 1) % w, ((i \div 4) - 1) \div w, w, h))
        THEN a ELSE 0]

Widths == {0, 10, 16, 20, 25, 32, 40, 41}

Heights == {0, 16, 20, 25, 30, 32, 40, 45, HugeHeight}

\* Full-length buffers of every silhouette.
FullInputs ==
    {[w |-> w, h |-> h, kind |-> "exact", p |-> p, a |-> 255] :
        w \in Widths, h \in Heights \ {HugeHeight}, p \in Patterns}

\* Buffers of every length, also against huge declared heights.
LengthInputs ==
    {i \in [w : Widths, h : Heights, kind : LenKinds \ {"exact"},
            p : {"blank", "full", "column"}, a : {255}] :
        i.h >= HugeHeight => i.kind \in {"empty", "ten", "row"}}

\* Alpha values at the threshold.
AlphaInputs ==
    [w : {20, 32}, h : {20, 32, 45}, kind : {"exact"},
     p : {"full", "plus", "topleft", "border"}, a : {128, 129}]

Inputs == FullInputs \cup LengthInputs \cup AlphaInputs

NoFile == [kind |-> "missing"]

Init ==
    /\ overflow_checks \in BOOLEAN
    /\ \E i \in Inputs :
          /\ width = i.w
          /\ height = i.h
          /\ image_data = Paint(i.w, i.h, LenOf(i.kind, i.w, i.h), i.p, i.a)
    /\ file = NoFile
    /\ op = "none"
    /\ arg = "-"
    /\ result = None
    /\ calls_left = 1

----------------------------------------------------------------------------
(* The caller's operations *)

\* The caller invokes detect_from_image on its buffer.
DetectFromImage ==
    /\ calls_left > 0
    /\ op' = "detect_from_image"
    /\ result' = detect_from_image(image_data, width, height, overflow_checks)
    /\ calls_left' = calls_left - 1
    /\ arg' = "-"
    /\ UNCHANGED <<overflow_checks, image_data, width, height, file>>

\* The caller invokes analyze_cursor_image on the path of its file.
AnalyzeCursorImage ==
    /\ calls_left > 0
    /\ op' = "analyze_cursor_image"
    /\ result' = analyze_cursor_image(file, overflow_checks)
    /\ calls_left' = calls_left - 1
    /\ arg' = "-"
    /\ UNCHANGED <<overflow_checks, image_data, width, height, file>>

\* The caller invokes load_cursor_svg on one of the six cursor types.
LoadCursorSvg ==
    /\ calls_left > 0
    /\ \E cursor_type \in CursorTypes :
          /\ arg' = cursor_type
          /\ result' = load_cursor_svg(cursor_type)
    /\ op' = "load_cursor_svg"
    /\ calls_left' = calls_left - 1
    /\ UNCHANGED <<overflow_checks, image_data, width, height, file>>

Next == DetectFromImage

Spec == Init /\ [][Next]_vars

----------------------------------------------------------------------------
(* The caller of the whole interface: up to MaxCalls invocations of the    *)
(* three operations, in any order, on a buffer and a file.                 *)

\* Files that do not decode and files that do.
Files ==
    {[kind |-> "missing"], [kind |-> "text"], [kind |-> "truncated"]}
    \cup {[kind |-> "rgba8", width |-> i.w, height |-> i.h,
           pixels |-> Paint(i.w, i.h, LenOf("exact", i.w, i.h), i.p, 255)] :
            i \in [w : {20, 32}, h : {32}, p : {"blank", "column", "border"}]}
    \cup {[kind |-> "rgb8", width |-> d[1], height |-> d[2],
           pixels |-> [i \in 1 .. (d[1] * d[2] * 3) |-> 7]] :
            d \in {<<20, 25>>, <<25, 20>>, <<32, 32>>}}

ApiInputs ==
    {i \in Inputs :
        /\ i.w \in {16, 32}
        /\ i.h \in {32, HugeHeight}
        /\ i.p \in {"column", "border"}
        /\ i.kind \in {"exact", "row"}
        /\ i.a = 255}

InitApi ==
    /\ overflow_checks \in BOOLEAN
    /\ \E i \in ApiInputs :
          /\ width = i.w
          /\ height = i.h
          /\ image_data = Paint(i.w, i.h, LenOf(i.kind, i.w, i.h), i.p, i.a)
    /\ file \in Files
    /\ op = "none"
    /\ arg = "-"
    /\ result = None
    /\ calls_left = MaxCalls

NextApi == DetectFromImage \/ AnalyzeCursorImage \/ LoadCursorSvg

SpecApi == InitApi /\ [][NextApi]_vars

----------------------------------------------------------------------------
(* What the claims speak of, stated apart from the code's own control flow *)

\* The detection order of the specification.
Order == <<"Arrow", "IBeam", "Crosshair", "PointingHand", "ResizeNWSE">>

\* Whether the size gate of shape s passes.
GatePasses(s, w, h, checks) ==
    CASE s = "Arrow"        -> ArrowGate(w, h)
      [] s = "IBeam"        -> IBeamGate(w, h)
      [] s = "Crosshair"    -> CrosshairGate(w, h, checks) = "true"
      [] s = "PointingHand" -> HandGate(w, h)
      [] s = "ResizeNWSE"   -> ResizeGate(w, h)

\* Whether the pattern test of shape s accepts.
TestPasses(s, data, w, h, checks) ==
    CASE s = "Arrow"        -> matches_arrow_pattern(data, w, h, checks) = "true"
      [] s = "IBeam"        -> matches_ibeam_pattern(data, w, h, checks) = "true"
      [] s = "Crosshair"    -> matches_crosshair_pattern(data, w, h, checks) = "true"
      [] s = "PointingHand" -> matches_hand_pattern(data, w, h, checks) = "true"
      [] s = "ResizeNWSE"   -> matches_resize_pattern(data, w, h, checks) = "true"

\* The places in Order of the shapes whose gate and test both pass.
Passing(data, w, h, checks) ==
    {k \in 1 .. Len(Order) :
        GatePasses(Order[k], w, h, checks)
        /\ TestPasses(Order[k], data, w, h, checks)}

\* The first passing shape, or None when there is none.
FirstMatch(data, w, h, checks) ==
    LET passing == Passing(data, w, h, checks)
    IN  IF passing = {} THEN None
        ELSE Some(Order[CHOOSE k \in passing : \A j \in passing : k <= j])

\* The buffer is shorter than width * height * 4, the product taken in the
\* integers: len < 4*w*h iff (len \div 4) \div w < h, for w > 0.
ShorterThanDeclared(data, w, h) ==
    w > 0 /\ h > 0 /\ (Len(data) \div 4) \div w < h

\* The buffer holds all of the declared grid.
FullLength(data, w, h) == ~ShorterThanDeclared(data, w, h)

\* The pixels of the declared grid that the buffer holds, by cell number.
HeldCells(data, w, h) ==
    IF w = 0 \/ h = 0 THEN {}
    ELSE IF ShorterThanDeclared(data, w, h) THEN 0 .. (Len(data) \div 4 - 1)
    ELSE 0 .. (w * h - 1)

\* Those of them with alpha > 128.
GridOpaque(data, w, h) ==
    {n \in HeldCells(data, w, h) : data[4 * n + 4] > 128}

Detected == op = "detect_from_image"

\* The scan as ScannedCells gives it is the scan as the loops make it
\* (wherever the loops are short enough to be walked).
ScanAsLooped ==
    height < HugeHeight =>
        ScannedCells(image_data, width, height)
            = ScannedCellsDirect(image_data, width, height)

Returned == Detected /\ result # Panicked

----------------------------------------------------------------------------
(* C1 *)

\* C1: detect_from_image returns, for every buffer, width and height, the
\* first shape in the order Arrow, IBeam, Crosshair, PointingHand,
\* ResizeNWSE whose size gate and pattern test both pass, and None exactly
\* when there is no such shape.
C1_FirstMatchReturned ==
    Detected => result = FirstMatch(image_data, width, height, overflow_checks)

\* The same of the calls that return: every call that does not panic
\* returns the first match.
FirstMatchWhenReturned ==
    Returned => result = FirstMatch(image_data, width, height, overflow_checks)

\* Arrow is returned although the ResizeNWSE gate and test pass as well.
ArrowBeforeResize ==
    /\ Detected
    /\ result = Some("Arrow")
    /\ ResizeGate(width, height)
    /\ matches_resize_pattern(image_data, width, height, overflow_checks) = "true"

----------------------------------------------------------------------------
(* C2 *)

\* C2: detect_from_image never raises a fault, whatever the width, the
\* height and the buffer: it completes with Some(shape) or None.
C2_NeverFaults == result # Panicked

----------------------------------------------------------------------------
(* C3 *)

\* C3: for a buffer shorter than width * height * 4 bytes (the product in
\* the integers) detect_from_image returns None, every pattern test
\* stopping at its length guard.  Stated of the calls that return, so that
\* what refutes it is a shape returned, not a panic.
C3_ShortBufferNoMatch ==
    (Returned /\ ShorterThanDeclared(image_data, width, height))
        => result = None

----------------------------------------------------------------------------
(* C4 *)

\* C4: when no pixel of the declared grid has alpha > 128 (a transparent
\* or an empty buffer, a width or a height of 0), detect_from_image
\* returns None.
C4_TransparentNoMatch ==
    (Detected /\ GridOpaque(image_data, width, height) = {})
        => result = None

\* The same of the calls that return.
TransparentNoMatchWhenReturned ==
    (Returned /\ GridOpaque(image_data, width, height) = {})
        => result = None

----------------------------------------------------------------------------
(* C7 *)

\* C7: detection never yields the horizontal resize variant: the result of
\* detect_from_image and of analyze_cursor_image is never Some(ResizeEW).
C7_NeverResizeEW ==
    op \in {"detect_from_image", "analyze_cursor_image"}
        => result # Some("ResizeEW")

\* A resize-shaped image was detected, as ResizeNWSE.
C7_ResizeDetected == Detected /\ result = Some("ResizeNWSE")

----------------------------------------------------------------------------
(* C9 *)

\* Within 2 pixels of the center column or of the center row.
OnCross(n, w, h) ==
    \/ Abs(CellX(n, w) - w \div 2) <= 2
    \/ Abs(CellY(n, w) - h \div 2) <= 2

\* A square full-length buffer, 20 <= width <= 40, with an opaque pixel,
\* all of its opaque pixels on the plus sign through the center.
PlusSign ==
    /\ width = height /\ width >= 20 /\ width <= 40
    /\ FullLength(image_data, width, height)
    /\ GridOpaque(image_data, width, height) # {}
    /\ \A n \in GridOpaque(image_data, width, height) : OnCross(n, width, height)

\* C9: a plus sign is detected as Crosshair, not Arrow: the Arrow test
\* rejects it (no pixel of the cross has x <= width/3 and y <= height/3)
\* and the IBeam gate fails.
C9_PlusSignIsCrosshair ==
    (Detected /\ PlusSign) =>
        /\ result = Some("Crosshair")
        /\ matches_arrow_pattern(image_data, width, height, overflow_checks) = "false"
        /\ \A n \in GridOpaque(image_data, width, height) :
              ~(CellX(n, width) <= width \div 3 /\ CellY(n, width) <= height \div 3)
        /\ ~IBeamGate(width, height)

\* The 25 x 25 plus sign was classified.
C9_PlusSign25 == Detected /\ PlusSign /\ width = 25

----------------------------------------------------------------------------
(* C10 *)

\* A 32 x 32 full-length buffer whose opaque pixels are exactly those of
\* the outermost 1-pixel border.
Border32 ==
    /\ width = 32 /\ height = 32 /\ Len(image_data) = 32 * 32 * 4
    /\ GridOpaque(image_data, width, height) =
          {n \in 0 .. (32 * 32 - 1) :
              CellX(n, 32) \in {0, 31} \/ CellY(n, 32) \in {0, 31}}

\* C10: the 32 x 32 border is detected as ResizeNWSE: the Arrow, Crosshair
\* and PointingHand tests reject it, the IBeam gate fails and the Resize
\* test accepts it.
C10_BorderIsResize ==
    (Detected /\ Border32) =>
        /\ result = Some("ResizeNWSE")
        /\ matches_arrow_pattern(image_data, width, height, overflow_checks) = "false"
        /\ matches_crosshair_pattern(image_data, width, height, overflow_checks) = "false"
        /\ matches_hand_pattern(image_data, width, height, overflow_checks) = "false"
        /\ ~IBeamGate(width, height)
        /\ matches_resize_pattern(image_data, width, height, overflow_checks) = "true"

\* The border was classified, at the lowest opaque alpha.
C10_Border32Detected == Detected /\ Border32 /\ image_data[4] = 129

----------------------------------------------------------------------------
(* C5 *)

\* The file decodes to an image.
Decodes(f) == f.kind \in {"rgba8", "rgb8"}

\* The RGBA8 pixels of a decoded image, byte by byte.
Rgba8Of(f) ==
    [i \in 1 .. (f.width * f.height * 4) |->
        IF f.kind = "rgba8" THEN f.pixels[i]
        ELSE IF i % 4 = 0 THEN 255
        ELSE f.pixels[(i - 1) - (i - 1) \div 4 + 1]]

\* C5: analyze_cursor_image returns None, without a fault, when the file
\* does not decode, and otherwise the first match of the decoded RGBA8
\* buffer with the decoded width and height.
C5_AnalyzeDecodesThenDetects ==
    op = "analyze_cursor_image" =>
        IF Decodes(file)
        THEN result = FirstMatch(Rgba8Of(file), file.width, file.height,
                                 overflow_checks)
        ELSE result = None

\* A file that does not decode and a file that decodes to a shape were
\* both analyzed.
C5_Analyzed ==
    /\ op = "analyze_cursor_image"
    /\ Decodes(file) /\ file.width # file.height
    /\ result # None

\* A decode failure, reported as None.
C5_DecodeFailed ==
    op = "analyze_cursor_image" /\ ~Decodes(file) /\ result = None

----------------------------------------------------------------------------
(* C6 *)

\* The directory of the bundled assets, relative to the source file.
CursorsDir == "../../../apps/desktop/src/cursors/"

\* C6: load_cursor_svg returns, for each of the six cursor types, a
\* present byte sequence: the bundled content of the file svg_filename
\* names for that type (so two calls with one type return the same bytes).
C6_LoadIsTotal ==
    op = "load_cursor_svg" =>
        /\ arg \in CursorTypes
        /\ result[1] = "Some"
        /\ result = Some(include_bytes(CursorsDir \o svg_filename(arg)))

\* The last of the six types was loaded after another load.
C6_Loaded ==
    op = "load_cursor_svg" /\ arg = "ResizeEW" /\ calls_left = MaxCalls - 2

====
